---- MODULE Spec2Model ----
(***************************************************************************)
(* A model of irace-rs: the parameter-space tree (src/src/param_space.rs), *)
(* its flattening and its encoding for the engine, the schema-directed     *)
(* decoder of raw configurations and of experiments                        *)
(* (src/src/experiment.rs), the target-runner adapter (src/src/runner.rs)  *)
(* and the entry points irace() and multi_irace() (src/src/lib.rs).        *)
(*                                                                         *)
(* A name (String) is a sequence of pieces of text, so that                *)
(* format!("{key}.{inner_key}") is a real concatenation:                   *)
(* "a.b" = <<"a", ".", "b">>.                                              *)
(*                                                                         *)
(* A ParamSpace is its field `subspaces`, an IndexMap<String,ParamSubspace>*)
(* modelled as the sequence of its entries [key, value] in the map's       *)
(* iteration order.                                                        *)
(***************************************************************************)
EXTENDS Integers, Sequences, FiniteSets, TLC

VARIABLES
    spaces,       \* the ParamSpace values under construction: spaces[1] is the
                  \* outermost one, Last(spaces) the receiver of the next call
    last,         \* the last call on a ParamSpace: its name, receiver before, result
    status,       \* "building" until flatten is called, then "flattened", or
                  \* "panicked" once an assert!/index panic unwound
    param_space,  \* the schema handed to Params::from_dict
    kwargs,       \* the raw PyDict handed to Params::from_dict
    result,       \* what Params::from_dict did with (kwargs, param_space)
    target,       \* the PyTargetRunner handed to the engine: its fields runner,
                  \* instances, scenario and param_space
    calls,        \* the invocations of PyTargetRunner::__call__: for each its
                  \* position, its argument, its locals and what it returned
    once,         \* the state of the static PYTHON_INIT: Once
    python,       \* the embedded interpreter: whether it is initialized, and how
                  \* many times the body of init() was entered
    gil,          \* the thread that holds the interpreter's lock, 0 for none
    threads       \* the host threads that call irace() and multi_irace(): for
                  \* each its position, its arguments, its locals and its result

vars == <<spaces, last, status, param_space, kwargs, result, target, calls,
          once, python, gil, threads>>

-----------------------------------------------------------------------------
(* Bounds of the model *)

\* entries (leaves and nested spaces) of the whole tree under construction
MaxEntries == 4
\* nesting depth: ParamSpace values under construction at the same time
MaxDepth == 3
\* entries of a raw configuration handed to the decoder
MaxDictLen == 2
\* invocations of the target runner that are in flight at the same time
NumCalls == 2
\* host threads that call irace() or multi_irace() at the same time
NumThreads == 2
\* configurations in the list that the engine returns
MaxResults == 2

-----------------------------------------------------------------------------
(* Names and declarations the builder draws from *)

\* the names each call draws from; together they give the dotted names that
\* meet after flattening: "a" + "b.c" and "a.b" + "c", "a" + "b" and "a.b"
RealNames == { <<"b">>, <<"c">> }
IntegerNames == { <<"b", ".", "c">> }
BoolNames == { <<"a", ".", "b">> }
CategoricalNames == { <<"c">> }
NestedNames == { <<"a">>, <<"b">>, <<"a", ".", "b">> }

\* the (lower, upper, log) arguments of add_real / add_integer
RealBounds == { [lower |-> 0, upper |-> 1, log |-> FALSE] }
IntegerBounds == { [lower |-> 1, upper |-> 10, log |-> FALSE] }
\* the variants arguments of add_categorical
VariantLists == { <<"x", "y", "z">>, <<"yes", "no">> }

-----------------------------------------------------------------------------
(* IndexMap<String, ParamSubspace> *)

Last(s) == s[Len(s)]
Front(s) == SubSeq(s, 1, Len(s) - 1)

\* IndexMap::keys
keys(m) == [i \in 1..Len(m) |-> m[i].key]

\* IndexMap::get_index_of, 0 for None
get_index_of(m, k) ==
    IF \E i \in 1..Len(m) : m[i].key = k
    THEN CHOOSE i \in 1..Len(m) : m[i].key = k
    ELSE 0

\* IndexMap::contains_key
contains_key(m, k) == get_index_of(m, k) # 0

\* IndexMap::get / Index: the value under k (k is present)
get(m, k) == m[get_index_of(m, k)].value

\* IndexMap::insert: a present key keeps its position and gets the new value,
\* a new key is appended
insert(m, k, v) ==
    IF contains_key(m, k)
    THEN [m EXCEPT ![get_index_of(m, k)] = [key |-> k, value |-> v]]
    ELSE Append(m, [key |-> k, value |-> v])

\* IndexMap::remove, which is IndexMap::swap_remove: the last entry takes the
\* place of the removed one
swap_remove(m, k) ==
    LET i == get_index_of(m, k) IN
    IF i = 0 THEN m
    ELSE IF i = Len(m) THEN Front(m)
    ELSE [j \in 1..(Len(m) - 1) |-> IF j = i THEN m[Len(m)] ELSE m[j]]

-----------------------------------------------------------------------------
(* ParamSubspace *)

Real(name, b) ==
    [kind |-> "Real", name |-> name, lower |-> b.lower, upper |-> b.upper, log |-> b.log]
Integer(name, b) ==
    [kind |-> "Integer", name |-> name, lower |-> b.lower, upper |-> b.upper, log |-> b.log]
Bool(name) == [kind |-> "Bool", name |-> name, variants |-> <<TRUE, FALSE>>]
Categorical(name, variants) == [kind |-> "Categorical", name |-> name, variants |-> variants]
Nested(space) == [kind |-> "Nested", space |-> space]

is_nested(subspace) == subspace.kind = "Nested"
into_nested(subspace) == subspace.space

-----------------------------------------------------------------------------
(* ParamSpace *)

new == << >>

add_raw(subspaces, name, subspace) == insert(subspaces, name, subspace)

get_raw(subspaces, name) ==
    IF contains_key(subspaces, name)
    THEN [some |-> TRUE, value |-> get(subspaces, name)]
    ELSE [some |-> FALSE]

\* flat_key with the separator forgotten
flat_key_undotted(key, inner_key) == key \o inner_key

\* format!("{key}.{inner_key}")
flat_key(key, inner_key) == key \o <<".">> \o inner_key

\* flat_key_is_free with the assert! dropped
flat_key_unchecked(subspaces, key) == TRUE

\* the condition of the assert! in flatten
flat_key_is_free(subspaces, key) == ~contains_key(subspaces, key)

RECURSIVE flatten(_)
RECURSIVE flatten_keys(_, _, _, _)
RECURSIVE flatten_inner(_, _, _, _)

\* the loop `for (inner_key, inner_param) in inner.subspaces`, from entry j on
flatten_inner(subspaces, key, inner, j) ==
    IF j > Len(inner) THEN [subspaces |-> subspaces, panic |-> FALSE]
    ELSE IF ~flat_key_is_free(subspaces, flat_key(key, inner[j].key))
         THEN [subspaces |-> subspaces, panic |-> TRUE]
         ELSE flatten_inner(add_raw(subspaces, flat_key(key, inner[j].key), inner[j].value),
                            key, inner, j + 1)

\* the loop `for key in &keys`, from key i on
flatten_keys(subspaces, ks, i, modified) ==
    IF i > Len(ks) THEN [subspaces |-> subspaces, modified |-> modified, panic |-> FALSE]
    ELSE IF ~contains_key(subspaces, ks[i])
         THEN [subspaces |-> subspaces, modified |-> modified, panic |-> TRUE]
    ELSE IF is_nested(get(subspaces, ks[i]))
         THEN LET removed == swap_remove(subspaces, ks[i])
                  inner == flatten(into_nested(get(subspaces, ks[i])))
              IN  IF inner.panic
                  THEN [subspaces |-> removed, modified |-> TRUE, panic |-> TRUE]
                  ELSE LET r == flatten_inner(removed, ks[i], inner.subspaces, 1)
                       IN  IF r.panic
                           THEN [subspaces |-> r.subspaces, modified |-> TRUE, panic |-> TRUE]
                           ELSE flatten_keys(r.subspaces, ks, i + 1, TRUE)
    ELSE flatten_keys(subspaces, ks, i + 1, modified)

\* flatten with `modified` starting out true
flatten_always_modified(subspaces) == flatten_keys(subspaces, keys(subspaces), 1, TRUE)

flatten(subspaces) == flatten_keys(subspaces, keys(subspaces), 1, FALSE)

-----------------------------------------------------------------------------
(* ParamSpace::as_py_object: the encoding for the engine.  The classes of  *)
(* the Python module irace (Real, Integer, Bool, Categorical,              *)
(* ParameterSpace) are plain constructors: a call builds the record of its *)
(* keyword arguments.                                                      *)

Ok(value) == [kind |-> "Ok", value |-> value]
PyValueError(msg) == [kind |-> "Err", err |-> "ValueError", msg |-> msg]
PyTypeError(msg) == [kind |-> "Err", err |-> "TypeError", msg |-> msg]
PyOverflowError(msg) == [kind |-> "Err", err |-> "OverflowError", msg |-> msg]

\* variant_indices counting from one
variant_indices_from_one(variants) == [i \in 1..Len(variants) |-> i]

\* (0..list.variants.len()).collect::<Vec<_>>()
variant_indices(variants) == [i \in 1..Len(variants) |-> i - 1]

\* the arms of `match subspace` that build a record
py_subspace(name, subspace) ==
    CASE subspace.kind = "Real" ->
           [class |-> "Real", name |-> name, lower |-> subspace.lower,
            upper |-> subspace.upper, log |-> subspace.log]
      [] subspace.kind = "Integer" ->
           [class |-> "Integer", name |-> name, lower |-> subspace.lower,
            upper |-> subspace.upper, log |-> subspace.log]
      [] subspace.kind = "Bool" -> [class |-> "Bool", name |-> name]
      [] subspace.kind = "Categorical" ->
           [class |-> "Categorical", name |-> name,
            variants |-> variant_indices(subspace.variants)]

\* the loop `for (name, subspace) in &self.subspaces`, from entry i on
RECURSIVE as_py_object_from(_, _, _)
as_py_object_from(subspaces, i, py_subspaces) ==
    IF i > Len(subspaces)
    THEN Ok([class |-> "ParameterSpace", subspaces |-> py_subspaces])
    ELSE IF is_nested(subspaces[i].value)
         THEN PyValueError("nested parameter space is not supported")
         ELSE as_py_object_from(subspaces, i + 1,
                  Append(py_subspaces, py_subspace(subspaces[i].key, subspaces[i].value)))

as_py_object(subspaces) == as_py_object_from(subspaces, 1, << >>)

-----------------------------------------------------------------------------
(* Specification of the builder: calls on the ParamSpace values *)

RECURSIVE CountEntries(_)
RECURSIVE CountFrom(_, _)
CountFrom(m, i) ==
    IF i > Len(m) THEN 0
    ELSE 1 + (IF is_nested(m[i].value) THEN CountEntries(m[i].value.space) ELSE 0)
           + CountFrom(m, i + 1)
CountEntries(m) == CountFrom(m, 1)

RECURSIVE CountAll(_, _)
CountAll(st, i) == IF i > Len(st) THEN 0 ELSE CountEntries(st[i]) + CountAll(st, i + 1)

\* entries of the tree once every space under construction has been nested
Budget == CountAll(spaces, 1) + (Len(spaces) - 1)

\* the record of a call: op its name, pre the receiver before it, ret what it
\* returned, present whether the name added was already there, again whether
\* flatten had completed on the receiver before
Call(op, pre, ret, present, again) ==
    [op |-> op, pre |-> pre, ret |-> ret, present |-> present, again |-> again]
NoCall == Call("new", << >>, FALSE, FALSE, FALSE)

Boundary == <<target, calls>>

\* no PyTargetRunner has been built
BoundaryIdle ==
    /\ target = [built |-> FALSE]
    /\ calls = << >>

Process == <<once, python, gil, threads>>

\* no thread has called irace() or multi_irace()
ProcessIdle ==
    /\ once = "incomplete"
    /\ python = [initialized |-> FALSE, inits |-> 0]
    /\ gil = 0
    /\ threads = << >>

Init ==
    /\ spaces = << new >>
    /\ last = NoCall
    /\ status = "building"
    /\ param_space = << >>
    /\ kwargs = << >>
    /\ result = [kind |-> "none"]
    /\ BoundaryIdle
    /\ ProcessIdle

Codec == <<param_space, kwargs, result>>

\* a call self.add_raw(name, subspace) on the space under construction
AddTo(name, subspace) ==
    /\ status = "building"
    /\ Budget < MaxEntries
    /\ spaces' = [spaces EXCEPT ![Len(spaces)] = add_raw(@, name, subspace)]
    /\ last' = Call("add_raw", << >>, FALSE, contains_key(Last(spaces), name), FALSE)
    /\ UNCHANGED <<status, Codec, Boundary, Process>>

add_real == \E name \in RealNames, b \in RealBounds : AddTo(name, Real(name, b))
add_integer == \E name \in IntegerNames, b \in IntegerBounds : AddTo(name, Integer(name, b))
add_bool == \E name \in BoolNames : AddTo(name, Bool(name))
add_categorical ==
    \E name \in CategoricalNames, variants \in VariantLists : AddTo(name, Categorical(name, variants))

\* ParamSpace::new() for a space that is going to be nested
New ==
    /\ status = "building"
    /\ Len(spaces) < MaxDepth
    /\ Budget < MaxEntries
    /\ spaces' = Append(spaces, new)
    /\ last' = NoCall
    /\ UNCHANGED <<status, Codec, Boundary, Process>>

\* outer.add_nested(name, inner): the innermost space moves into the one around it
add_nested ==
    /\ status = "building"
    /\ Len(spaces) > 1
    /\ \E name \in NestedNames :
         /\ spaces' = [Front(spaces) EXCEPT ![Len(spaces) - 1] =
                          add_raw(@, name, Nested(Last(spaces)))]
         /\ last' = Call("add_raw", << >>, FALSE,
                          contains_key(spaces[Len(spaces) - 1], name), FALSE)
    /\ UNCHANGED <<status, Codec, Boundary, Process>>

\* self.flatten() on the outermost space, once the tree is built
Flatten ==
    /\ status \in {"building", "flattened"}
    /\ Len(spaces) = 1
    /\ LET r == flatten(Last(spaces)) IN
         /\ spaces' = [spaces EXCEPT ![Len(spaces)] = r.subspaces]
         /\ last' = Call("flatten", Last(spaces), r.modified, FALSE, status = "flattened")
         /\ status' = IF r.panic THEN "panicked" ELSE "flattened"
    /\ UNCHANGED <<Codec, Boundary, Process>>

\* self.as_py_object(py, irace) on the outermost space
AsPyObject ==
    /\ status \in {"building", "flattened"}
    /\ Len(spaces) = 1
    /\ last' = Call("as_py_object", Last(spaces), as_py_object(Last(spaces)), FALSE, FALSE)
    /\ UNCHANGED <<spaces, status, Codec, Boundary, Process>>

Next ==
    \/ add_real
    \/ add_integer
    \/ add_bool
    \/ add_categorical
    \/ New
    \/ add_nested
    \/ Flatten
    \/ AsPyObject

Spec == Init /\ [][Next]_vars

-----------------------------------------------------------------------------
(* Python objects that cross the boundary, and pyo3's FromPyObject for the *)
(* types the decoder extracts.  A float is a number of halves, so that the *)
(* float of an int is a conversion: float(3) is 6 halves.                  *)

PyFloat(halves) == [t |-> "float", halves |-> halves]
PyInt(v) == [t |-> "int", int |-> v]
PyBool(v) == [t |-> "bool", bool |-> v]
PyStr(v) == [t |-> "str", str |-> v]

\* mahf::params::Param, the type-erased value: its Rust type and the value
F64(halves) == [type |-> "f64", v |-> halves]
U32(v) == [type |-> "u32", v |-> v]
Usize(v) == [type |-> "usize", v |-> v]
RustBool(v) == [type |-> "bool", v |-> v]
Variant(v) == [type |-> "variant", v |-> v]

Panic(msg) == [kind |-> "Panic", msg |-> msg]

\* py_key.extract::<String>()
extract_String(ob) ==
    IF ob.t = "str" THEN Ok(ob.str) ELSE PyTypeError(<<"cannot be converted to PyString">>)

\* py_value.extract::<f64>(): PyFloat_AsDouble, which takes an int (and a bool,
\* an int to Python) as well
extract_f64(ob) ==
    CASE ob.t = "float" -> Ok(F64(ob.halves))
      [] ob.t = "int" -> Ok(F64(2 * ob.int))
      [] ob.t = "bool" -> Ok(F64(IF ob.bool THEN 2 ELSE 0))
      [] OTHER -> PyTypeError(<<"must be real number">>)

\* the index of an object, PyNumber_Index, and the check of the unsigned range
\* (the values of the model stay below the maximum of u32 and usize)
extract_unsigned(ob) ==
    CASE ob.t = "int" ->
           IF ob.int < 0 THEN PyOverflowError(<<"out of range">>) ELSE Ok(ob.int)
      [] ob.t = "bool" -> Ok(IF ob.bool THEN 1 ELSE 0)
      [] OTHER -> PyTypeError(<<"cannot be interpreted as an integer">>)

\* py_value.extract::<u32>()
extract_u32(ob) ==
    IF extract_unsigned(ob).kind = "Ok" THEN Ok(U32(extract_unsigned(ob).value))
    ELSE extract_unsigned(ob)

\* py_value.extract::<usize>()
extract_usize(ob) == extract_unsigned(ob)

\* py_value.extract::<bool>(): a PyBool and nothing else
extract_bool(ob) ==
    IF ob.t = "bool" THEN Ok(RustBool(ob.bool)) ELSE PyTypeError(<<"cannot be converted to PyBool">>)

-----------------------------------------------------------------------------
(* Params::from_dict, the schema-directed decoder.  Params is a map from   *)
(* name to Param: a function on the set of its names.                      *)

Params_new == << >>

\* Params::insert with the entry dropped
Params_insert_dropped(params, key, value) == params

\* Params::insert / Params::insert_raw
Params_insert(params, key, value) ==
    [k \in (DOMAIN params) \cup {key} |-> IF k = key THEN value ELSE params[k]]

\* lookup with the error of a failed extraction
lookup_type_error(schema, key) ==
    IF get_raw(schema, key).some
    THEN Ok(get_raw(schema, key).value)
    ELSE PyTypeError(<<"unknown parameter name: ", key>>)

\* param_space.get_raw(&key).ok_or_else(|| PyValueError::new_err(..))
lookup(schema, key) ==
    IF get_raw(schema, key).some
    THEN Ok(get_raw(schema, key).value)
    ELSE PyValueError(<<"unknown parameter name: ", key>>)

\* index_variants counting the variants from the end
index_variants_reversed(variants, index) ==
    IF index < Len(variants)
    THEN Ok(Variant(variants[Len(variants) - index]))
    ELSE Panic(<<"index out of bounds">>)

\* categorical.variants[index].clone(): Vec's Index panics out of bounds
index_variants(variants, index) ==
    IF index < Len(variants)
    THEN Ok(Variant(variants[index + 1]))
    ELSE Panic(<<"index out of bounds">>)

\* the arms of `match subspace`: the value to insert, or the error or panic
decode_value(subspace, py_value) ==
    CASE subspace.kind = "Real" -> extract_f64(py_value)
      [] subspace.kind = "Integer" -> extract_u32(py_value)
      [] subspace.kind = "Bool" -> extract_bool(py_value)
      [] subspace.kind = "Categorical" ->
           IF extract_usize(py_value).kind = "Ok"
           THEN index_variants(subspace.variants, extract_usize(py_value).value)
           ELSE extract_usize(py_value)
      [] subspace.kind = "Nested" ->
           PyValueError(<<"nested parameter space not supported">>)

\* the body of the loop for one entry: the value to insert under the key
decode_entry(entry, schema) ==
    IF extract_String(entry.key).kind # "Ok" THEN extract_String(entry.key)
    ELSE IF lookup(schema, extract_String(entry.key).value).kind # "Ok"
         THEN lookup(schema, extract_String(entry.key).value)
         ELSE decode_value(lookup(schema, extract_String(entry.key).value).value,
                           entry.value)

\* the loop `for (py_key, py_value) in kwargs`, from entry i on
RECURSIVE from_dict_from(_, _, _, _)
from_dict_from(dict, schema, i, params) ==
    IF i > Len(dict) THEN Ok(params)
    ELSE IF decode_entry(dict[i], schema).kind # "Ok"
         THEN decode_entry(dict[i], schema)
         ELSE from_dict_from(dict, schema, i + 1,
                  Params_insert(params, extract_String(dict[i].key).value,
                                decode_entry(dict[i], schema).value))

from_dict(dict, schema) == from_dict_from(dict, schema, 1, Params_new)

-----------------------------------------------------------------------------
(* Specification of the decoder: Params::from_dict applied to the raw      *)
(* configurations and schemas below                                        *)

\* the space of the concrete scenario:
\* {x: Real[0,1], n: Integer[1,10], flag: Bool, mode: Categorical[a,b,c]}
ScenarioSpace ==
    << [key |-> <<"x">>, value |-> Real(<<"x">>, [lower |-> 0, upper |-> 1, log |-> FALSE])],
       [key |-> <<"n">>, value |-> Integer(<<"n">>, [lower |-> 1, upper |-> 10, log |-> FALSE])],
       [key |-> <<"flag">>, value |-> Bool(<<"flag">>)],
       [key |-> <<"mode">>, value |-> Categorical(<<"mode">>, <<"a", "b", "c">>)] >>

\* the same with a space nested under "sub" that has not been flattened
UnflattenedSpace ==
    Append(ScenarioSpace,
           [key |-> <<"sub">>,
            value |-> Nested(<< [key |-> <<"flag">>, value |-> Bool(<<"flag">>)] >>)])

Schemas ==
    { ScenarioSpace,
      UnflattenedSpace,
      << [key |-> <<"mode">>, value |-> Categorical(<<"mode">>, <<"yes", "no">>)] >>,
      << >> }

\* {x: 0.5, n: 3, flag: true, mode: 1} and the same with mode: 5
ScenarioDict(mode) ==
    << [key |-> PyStr(<<"x">>), value |-> PyFloat(1)],
       [key |-> PyStr(<<"n">>), value |-> PyInt(3)],
       [key |-> PyStr(<<"flag">>), value |-> PyBool(TRUE)],
       [key |-> PyStr(<<"mode">>), value |-> PyInt(mode)] >>

PyKeys ==
    { PyStr(<<"x">>), PyStr(<<"n">>), PyStr(<<"flag">>), PyStr(<<"mode">>),
      PyStr(<<"sub">>), PyStr(<<"sub", ".", "flag">>), PyStr(<<"y">>), PyInt(0) }
PyValues ==
    { PyFloat(1), PyInt(1), PyInt(5), PyInt(0 - 1), PyBool(TRUE), PyStr(<<"b">>) }
PyEntries == { [key |-> k, value |-> v] : k \in PyKeys, v \in PyValues }

InitDecode ==
    /\ spaces = << new >>
    /\ last = NoCall
    /\ status = "building"
    /\ param_space \in Schemas
    /\ kwargs \in { << >>, ScenarioDict(1), ScenarioDict(5) }
    /\ result = [kind |-> "none"]
    /\ BoundaryIdle
    /\ ProcessIdle

\* Params::from_dict(kwargs, param_space)
Decode ==
    /\ result.kind = "none"
    /\ result' = from_dict(kwargs, param_space)
    /\ UNCHANGED <<spaces, last, status, param_space, kwargs, Boundary, Process>>

\* the engine fills the configuration: PyDict's set_item under a key that is new
SetItem ==
    /\ result.kind = "none"
    /\ Len(kwargs) < MaxDictLen
    /\ \E e \in PyEntries :
         /\ \A i \in 1..Len(kwargs) : kwargs[i].key # e.key
         /\ kwargs' = Append(kwargs, e)
    /\ UNCHANGED <<spaces, last, status, param_space, result, Boundary, Process>>

NextDecode ==
    \/ SetItem
    \/ Decode

SpecDecode == InitDecode /\ [][NextDecode]_vars

-----------------------------------------------------------------------------
(* The experiment the engine hands to the target runner, and               *)
(* Experiment::from_py (src/src/experiment.rs).  The engine's Experiment   *)
(* object has the five attributes read here, so getattr finds them.        *)

PyNone == [t |-> "none"]
PyDict(items) == [t |-> "dict", items |-> items]

\* Option<T>
None == [some |-> FALSE]
Some(v) == [some |-> TRUE, value |-> v]

\* extract::<u64>() (the values of the model stay below the maximum of u64)
extract_u64(ob) == extract_unsigned(ob)

\* extract::<Option<String>>(): None for Python's None, else extract::<String>()
extract_Option_String(ob) ==
    IF ob.t = "none" THEN Ok(None)
    ELSE IF extract_String(ob).kind = "Ok" THEN Ok(Some(extract_String(ob).value))
    ELSE extract_String(ob)

\* extract::<Option<usize>>()
extract_Option_usize(ob) ==
    IF ob.t = "none" THEN Ok(None)
    ELSE IF extract_usize(ob).kind = "Ok" THEN Ok(Some(extract_usize(ob).value))
    ELSE extract_usize(ob)

\* downcast::<PyDict>(): the items of the dict in its iteration order
downcast_PyDict(ob) ==
    IF ob.t = "dict" THEN Ok(ob.items) ELSE PyTypeError(<<"cannot be converted to PyDict">>)

\* Box::new(instance) as Box<dyn ErasedInstance>: the value and its concrete type
Erased(I, instance) == [type |-> I, instance |-> instance]

\* slice::get counting the instances from one
instances_get_from_one(instances, index) ==
    IF index >= 1 /\ index <= Len(instances) THEN Some(instances[index]) ELSE None

\* instances.get(index)
instances_get(instances, index) ==
    IF index < Len(instances) THEN Some(instances[index + 1]) ELSE None

\* instance.as_ref().as_any().downcast_ref::<I>()
downcast_ref(erased, I) ==
    IF erased.type = I THEN Some(erased.instance) ELSE None

\* .and_then(|index| instances.get(index)).and_then(|instance| ..downcast_ref())
resolve(index, instances, I) ==
    IF ~index.some THEN None
    ELSE IF ~instances_get(instances, index.value).some THEN None
    ELSE downcast_ref(instances_get(instances, index.value).value, I)

\* the struct Experiment built with a seed of its own
Experiment_default_seed(id, seed, instance_id, instance, params) ==
    [id |-> id, seed |-> 0, instance_id |-> instance_id,
     instance |-> instance, params |-> params]

\* the struct Experiment
Experiment(id, seed, instance_id, instance, params) ==
    [id |-> id, seed |-> seed, instance_id |-> instance_id,
     instance |-> instance, params |-> params]

\* Experiment::from_py: each `?` returns the error of the first step that fails
from_py(obj, instances, schema, I) ==
    IF extract_String(obj.configuration_id).kind # "Ok"
    THEN extract_String(obj.configuration_id)
    ELSE IF extract_u64(obj.seed).kind # "Ok" THEN extract_u64(obj.seed)
    ELSE IF extract_Option_String(obj.instance_id).kind # "Ok"
    THEN extract_Option_String(obj.instance_id)
    ELSE IF extract_Option_usize(obj.instance).kind # "Ok"
    THEN extract_Option_usize(obj.instance)
    ELSE IF downcast_PyDict(obj.configuration).kind # "Ok"
    THEN downcast_PyDict(obj.configuration)
    ELSE IF from_dict(downcast_PyDict(obj.configuration).value, schema).kind # "Ok"
    THEN from_dict(downcast_PyDict(obj.configuration).value, schema)
    ELSE Ok(Experiment(extract_String(obj.configuration_id).value,
                       extract_u64(obj.seed).value,
                       extract_Option_String(obj.instance_id).value,
                       resolve(extract_Option_usize(obj.instance).value, instances, I),
                       from_dict(downcast_PyDict(obj.configuration).value, schema).value))

-----------------------------------------------------------------------------
(* Target runners (the trait TargetRunner<I>, src/src/runner.rs) and the   *)
(* adapter PyTargetRunner.  A runner is a value of the host: its name, the *)
(* instance type I it is written for, and what run() computes.  An         *)
(* objective is an f64, a number of halves.                                *)

\* eyre's Report, the error of an ExecResult
Report(msg) == [kind |-> "Err", err |-> "Report", msg |-> msg]

\* the runner of the examples without its check of the instance
run_pso_unchecked(scenario, experiment) ==
    IF <<"x">> \notin DOMAIN experiment.params THEN Report(<<"missing x">>)
    ELSE Ok(experiment.seed + experiment.params[<<"x">>].v)

\* the runner of the examples: it needs an instance and the parameter x, and
\* its objective is determined by the instance, the seed and the parameters
run_pso(scenario, experiment) ==
    IF ~experiment.instance.some THEN Report(<<"missing instance">>)
    ELSE IF <<"x">> \notin DOMAIN experiment.params THEN Report(<<"missing x">>)
    ELSE Ok(experiment.instance.value + experiment.seed + experiment.params[<<"x">>].v)

\* a runner that reads the scenario, the seed and the configuration alone
run_seeded(scenario, experiment) ==
    Ok(scenario.max_experiments + experiment.seed
         + Cardinality(DOMAIN experiment.params))

\* a runner whose algorithm fails
run_failing(scenario, experiment) == Report(<<"failed">>)

\* TargetRunner::run of the runner
run(runner, scenario, experiment) ==
    CASE runner.name = "pso" -> run_pso(scenario, experiment)
      [] runner.name = "seeded" -> run_seeded(scenario, experiment)
      [] runner.name = "failing" -> run_failing(scenario, experiment)

\* `?` on a PyErr in a function that returns an ExecResult: the Report of the
\* error, whose text is the exception's type and message
into_Report(e) == Report(<<e.err, ": ">> \o e.msg)

\* map_err(|e| PyValueError::new_err(e.to_string())).map(|result| result.value()):
\* the f64 goes to Python as a float
into_py(ret) ==
    IF ret.kind = "Ok" THEN Ok(PyFloat(ret.value)) ELSE PyValueError(ret.msg)

\* PyTargetRunner::new: the instances boxed in their order
PyTargetRunner_new(runner, instances, scenario, schema) ==
    [built |-> TRUE,
     runner |-> runner,
     instances |-> [i \in 1..Len(instances) |-> Erased(runner.I, instances[i])],
     scenario |-> scenario,
     param_space |-> schema]

\* the locals of one invocation of __call__
Invocation(pc, payload, experiment, ret, ran, outcome) ==
    [pc |-> pc, payload |-> payload, experiment |-> experiment, ret |-> ret,
     ran |-> ran, outcome |-> outcome]
NotCalled == Invocation("idle", PyNone, None, None, 0, None)

\* the engine calls target_runner(scenario, experiment)
Arrive(c, obj) ==
    /\ calls[c].pc \in {"idle", "done"}
    /\ calls' = [calls EXCEPT ![c] = Invocation("called", obj, None, None, 0, None)]
    /\ UNCHANGED <<spaces, last, status, Codec, target, Process>>

\* the experiment of the invocation that decoded most recently
experiment_of_shared(cs, c) ==
    LET D == { d \in DOMAIN cs : cs[d].experiment.some } IN
    IF c + 1 \in D THEN cs[c + 1].experiment.value ELSE cs[c].experiment.value

\* the local `experiment` of the invocation
experiment_of(cs, c) == cs[c].experiment.value

\* TargetRunnerWrapper::run, its first statement: Experiment::from_py(..)?
\* An error returns through `?` and map_err; a panic unwinds to pyo3
FromPy(c) ==
    /\ calls[c].pc = "called"
    /\ LET r == from_py(calls[c].payload, target.instances, target.param_space,
                        target.runner.I) IN
       calls' = [calls EXCEPT ![c] =
          CASE r.kind = "Ok" -> [@ EXCEPT !.pc = "decoded", !.experiment = Some(r.value)]
            [] r.kind = "Err" ->
                 [@ EXCEPT !.pc = "done", !.outcome = Some(into_py(into_Report(r)))]
            [] r.kind = "Panic" -> [@ EXCEPT !.pc = "done", !.outcome = Some(r)]]
    /\ UNCHANGED <<spaces, last, status, Codec, target, Process>>

\* TargetRunnerWrapper::run, its second statement: self.0.run(scenario, experiment)
Run(c) ==
    /\ calls[c].pc = "decoded"
    /\ calls' = [calls EXCEPT ![c] =
          [@ EXCEPT !.pc = "ran",
                    !.ret = Some(run(target.runner, target.scenario,
                                     experiment_of(calls, c))),
                    !.ran = @ + 1]]
    /\ UNCHANGED <<spaces, last, status, Codec, target, Process>>

\* __call__ returns: map_err and map on what the runner returned
Return(c) ==
    /\ calls[c].pc = "ran"
    /\ calls' = [calls EXCEPT ![c] =
          [@ EXCEPT !.pc = "done", !.outcome = Some(into_py(calls[c].ret.value))]]
    /\ UNCHANGED <<spaces, last, status, Codec, target, Process>>

-----------------------------------------------------------------------------
(* Specifications of the dispatch: the runners, registries and experiments *)
(* the invocations are drawn from                                          *)

\* a runner and the instance type it is written for
Runner(name, I) == [name |-> name, I |-> I]
Runners == { Runner("pso", "I"), Runner("seeded", "I"), Runner("failing", "I") }

\* the field of Scenario a runner reads
Scenarios == { [max_experiments |-> 100] }

\* the instances of a run, each a number that tells it from the others
InstanceLists == { << >>, <<10>>, <<10, 20>> }

\* a space with one categorical parameter
ModeSpace == << [key |-> <<"mode">>, value |-> Categorical(<<"mode">>, <<"yes", "no">>)] >>

\* the engine's Experiment object
PyExperiment(id, seed, instance_id, instance, configuration) ==
    [configuration_id |-> id, seed |-> seed, instance_id |-> instance_id,
     instance |-> instance, configuration |-> configuration]

PyConfigurations ==
    { PyDict(ScenarioDict(1)),
      PyDict(ScenarioDict(5)),
      PyDict(<< [key |-> PyStr(<<"x">>), value |-> PyInt(1)] >>),
      PyDict(<< [key |-> PyStr(<<"mode">>), value |-> PyBool(TRUE)] >>),
      PyDict(<< [key |-> PyStr(<<"y">>), value |-> PyFloat(1)] >>),
      PyDict(<< >>),
      PyStr(<<"x">>) }

PyExperiments ==
    { PyExperiment(id, seed, instance_id, instance, configuration) :
        id \in { PyStr(<<"1">>), PyInt(1) },
        seed \in { PyInt(7), PyInt(0 - 1) },
        instance_id \in { PyNone, PyStr(<<"i1">>) },
        instance \in { PyNone, PyInt(0), PyInt(1), PyInt(2), PyStr(<<"0">>) },
        configuration \in PyConfigurations }

\* the PyTargetRunner values that make_kwargs can build
Targets ==
    { PyTargetRunner_new(runner, instances, scenario, schema) :
        runner \in Runners, instances \in InstanceLists, scenario \in Scenarios,
        schema \in { ScenarioSpace, ModeSpace } }

\* the builder and the decoder are not in use
Elsewhere ==
    /\ spaces = << new >>
    /\ last = NoCall
    /\ status = "building"
    /\ param_space = << >>
    /\ kwargs = << >>
    /\ result = [kind |-> "none"]

\* one invocation at a time, on any experiment
InitDispatch ==
    /\ Elsewhere
    /\ ProcessIdle
    /\ target \in Targets
    /\ calls = << NotCalled >>

NextDispatch ==
    \/ \E obj \in PyExperiments : Arrive(1, obj)
    \/ FromPy(1)
    \/ Run(1)
    \/ Return(1)

SpecDispatch == InitDispatch /\ [][NextDispatch]_vars

\* Experiment::from_py as a function of its arguments: any slice of erased
\* instances, of the type I and of another
ErasedLists ==
    { << >>,
      << Erased("I", 10), Erased("I", 20) >>,
      << Erased("J", 10), Erased("I", 20) >>,
      << Erased("I", 10), Erased("J", 20) >> }

InitFromPy ==
    /\ Elsewhere
    /\ ProcessIdle
    /\ target \in { [built |-> TRUE, runner |-> Runner("pso", "I"), instances |-> instances,
                     scenario |-> scenario, param_space |-> ScenarioSpace] :
                       instances \in ErasedLists, scenario \in Scenarios }
    /\ calls = << NotCalled >>

NextFromPy ==
    \/ \E obj \in PyExperiments : Arrive(1, obj)
    \/ FromPy(1)

SpecFromPy == InitFromPy /\ [][NextFromPy]_vars

\* the experiments of the invocations that run at the same time
FewPyExperiments ==
    { PyExperiment(PyStr(<<"1">>), PyInt(7), PyNone, PyInt(0), PyDict(ScenarioDict(1))),
      PyExperiment(PyStr(<<"2">>), PyInt(8), PyNone, PyInt(1), PyDict(ScenarioDict(1))),
      PyExperiment(PyStr(<<"3">>), PyInt(7), PyNone, PyNone, PyDict(ScenarioDict(1))),
      PyExperiment(PyStr(<<"4">>), PyInt(7), PyNone, PyInt(0), PyDict(ScenarioDict(5))),
      PyExperiment(PyStr(<<"5">>), PyInt(7), PyNone, PyInt(0), PyStr(<<"x">>)) }

InitCalls ==
    /\ Elsewhere
    /\ ProcessIdle
    /\ target \in { PyTargetRunner_new(runner, <<10, 20>>, scenario, ScenarioSpace) :
                      runner \in { Runner("pso", "I"), Runner("seeded", "I") },
                      scenario \in Scenarios }
    /\ calls = [c \in 1..NumCalls |-> NotCalled]

NextCalls ==
    \E c \in 1..NumCalls :
        \/ \E obj \in FewPyExperiments : Arrive(c, obj)
        \/ FromPy(c)
        \/ Run(c)
        \/ Return(c)

SpecCalls == InitCalls /\ [][NextCalls]_vars

-----------------------------------------------------------------------------
(* irace() and multi_irace() (src/src/lib.rs): the one-time initialization *)
(* of the interpreter, the arguments handed to the engine, the engine's    *)
(* callbacks and the conversion of what the engine returns.  The module    *)
(* `irace` is importable and its classes construct.                        *)

PyList(items) == [t |-> "list", items |-> items]

\* the indices counted from one
range_from_one(n) == [i \in 1..n |-> i]

\* (0..num_instances).collect::<Vec<_>>()
range(n) == [i \in 1..n |-> i - 1]

\* Scenario::as_py_object: the engine's Scenario with the fields the model reads
Scenario_as_py_object(scenario, num_instances) ==
    Ok([class |-> "Scenario",
        max_experiments |-> scenario.max_experiments,
        instances |-> range(num_instances)])

\* Run::new, and the arguments of irace()
Run_new(target_runner, instances, scenario, schema) ==
    [target_runner |-> target_runner, instances |-> instances,
     scenario |-> scenario, param_space |-> schema]

\* make_kwargs: the target runner is built first, then the two encodings
make_kwargs(r) ==
    LET target_runner == PyTargetRunner_new(r.target_runner, r.instances,
                                            r.scenario, r.param_space)
        scenario == Scenario_as_py_object(r.scenario, Len(r.instances))
        parameter_space == as_py_object(r.param_space)
    IN  IF scenario.kind # "Ok" THEN scenario
        ELSE IF parameter_space.kind # "Ok" THEN parameter_space
        ELSE Ok([target_runner |-> target_runner,
                 scenario |-> scenario.value,
                 parameter_space |-> parameter_space.value])

\* the loop `for run in runs` of multi_irace, from run i on; irace() is the
\* case of one run
RECURSIVE make_all_kwargs(_, _, _)
make_all_kwargs(runs, i, list) ==
    IF i > Len(runs) THEN Ok(list)
    ELSE IF make_kwargs(runs[i]).kind # "Ok" THEN make_kwargs(runs[i])
    ELSE make_all_kwargs(runs, i + 1, Append(list, make_kwargs(runs[i]).value))

\* PyTargetRunner::__call__, the whole of it
PyTargetRunner_call(tr, obj) ==
    LET r == from_py(obj, tr.instances, tr.param_space, tr.runner.I) IN
    CASE r.kind = "Ok" -> into_py(run(tr.runner, tr.scenario, r.value))
      [] r.kind = "Err" -> into_py(into_Report(r))
      [] r.kind = "Panic" -> r

\* Vec::push that keeps one of two equal elements
push_unique(vec, p) ==
    IF \E i \in 1..Len(vec) : vec[i] = p THEN vec ELSE Append(vec, p)

\* Vec::push, as collect() fills the Vec
push(vec, p) == Append(vec, p)

\* .map(|kwargs| Params::from_dict(kwargs, param_space)).collect::<PyResult<Vec<_>>>()
\* from element i on: the first error ends it
RECURSIVE collect_Params(_, _, _, _)
collect_Params(list, schema, i, vec) ==
    IF i > Len(list) THEN Ok(vec)
    ELSE IF from_dict(list[i].items, schema).kind # "Ok"
         THEN from_dict(list[i].items, schema)
         ELSE collect_Params(list, schema, i + 1,
                             push(vec, from_dict(list[i].items, schema).value))

\* convert_result: the list, then every element a dict, then the decodes
convert_result(res, schema) ==
    IF res.t # "list" THEN PyValueError(<<"irace result should be a list">>)
    ELSE IF \E i \in 1..Len(res.items) : res.items[i].t # "dict"
    THEN PyValueError(<<"irace result should be a list of dicts">>)
    ELSE collect_Params(res.items, schema, 1, << >>)

\* results.iter().zip(param_spaces).map(convert_result).collect() from pair i on
RECURSIVE collect_results(_, _, _, _)
collect_results(list, schemas, i, vec) ==
    IF i > Len(list) \/ i > Len(schemas) THEN Ok(vec)
    ELSE IF convert_result(list[i], schemas[i]).kind # "Ok"
         THEN convert_result(list[i], schemas[i])
         ELSE collect_results(list, schemas, i + 1,
                              Append(vec, convert_result(list[i], schemas[i]).value))

\* the end of multi_irace: the downcast of the results and their conversion
convert_results(res, schemas) ==
    IF res.t # "list" THEN PyValueError(<<"multi_irace result should be a list">>)
    ELSE collect_results(res.items, schemas, 1, << >>)

\* `?` on the PyErr of the closure: the eyre Report that irace() returns
Report_from(e) == [kind |-> "Err", err |-> "Report", cause |-> e]

\* Once::call_once lets the caller run the body whenever no body has completed
enters_unless_complete(state) == state \in {"incomplete", "running"}

\* Once::call_once lets the caller run the body: only the first caller
enters(state) == state = "incomplete"

\* the locals of one call of irace() or multi_irace()
Thread(pc, fn, runs, kw, callback, res, out) ==
    [pc |-> pc, fn |-> fn, runs |-> runs, kwargs |-> kw, callback |-> callback,
     result |-> res, out |-> out]
NotStarted == Thread("idle", "none", << >>, << >>, None, PyNone, None)

\* a host thread calls irace(..) (one run) or multi_irace(..)
Start(t, entries) ==
    /\ threads[t].pc \in {"idle", "done"}
    /\ \E e \in entries :
         threads' = [threads EXCEPT ![t] =
                        Thread("init", e.fn, e.runs, << >>, None, PyNone, None)]
    /\ UNCHANGED <<spaces, last, status, Codec, Boundary, once, python, gil>>

\* init(): PYTHON_INIT.call_once(..).  The first caller enters the body, a
\* caller that finds the body running waits, one that finds it complete
\* returns, one that finds the Once poisoned panics
CallOnce(t) ==
    /\ threads[t].pc = "init"
    /\ \/ /\ enters(once)
          /\ once' = "running"
          /\ python' = [python EXCEPT !.inits = @ + 1]
          /\ threads' = [threads EXCEPT ![t].pc = "body"]
       \/ /\ once = "complete"
          /\ threads' = [threads EXCEPT ![t].pc = "gil"]
          /\ UNCHANGED <<once, python>>
       \/ /\ once = "poisoned"
          /\ threads' = [threads EXCEPT ![t].pc = "panicked"]
          /\ UNCHANGED <<once, python>>
    /\ UNCHANGED <<spaces, last, status, Codec, Boundary, gil>>

\* the body of call_once: append_to_inittab!, prepare_freethreaded_python(),
\* register_site_packages() returns Ok
InitBody(t) ==
    /\ threads[t].pc = "body"
    /\ python' = [python EXCEPT !.initialized = TRUE]
    /\ once' = "complete"
    /\ threads' = [threads EXCEPT ![t].pc = "gil"]
    /\ UNCHANGED <<spaces, last, status, Codec, Boundary, gil>>

\* the body of call_once panics (an interpreter the host started before, or
\* register_site_packages().unwrap() on an error): the Once is poisoned
InitBodyPanics(t) ==
    /\ threads[t].pc = "body"
    /\ once' = "poisoned"
    /\ threads' = [threads EXCEPT ![t].pc = "panicked"]
    /\ UNCHANGED <<spaces, last, status, Codec, Boundary, python, gil>>

\* Python::with_gil(|py| ..) up to the call of the engine: make_kwargs for
\* each run; an error ends the closure and the call
WithGil(t) ==
    /\ threads[t].pc = "gil"
    /\ gil = 0
    /\ LET k == make_all_kwargs(threads[t].runs, 1, << >>) IN
       IF k.kind = "Ok"
       THEN /\ threads' = [threads EXCEPT ![t].pc = "engine", ![t].kwargs = k.value]
            /\ gil' = t
       ELSE /\ threads' = [threads EXCEPT ![t].pc = "done",
                                          ![t].out = Some(Report_from(k))]
            /\ gil' = 0
    /\ UNCHANGED <<spaces, last, status, Codec, Boundary, once, python>>

\* the experiments the engine makes for a run: an instance it was given, or
\* none, and a configuration
EngineExperiments(kw, configurations) ==
    { PyExperiment(PyStr(<<"1">>), PyInt(7), PyNone, instance, configuration) :
        instance \in {PyNone} \cup { PyInt(kw.scenario.instances[i]) :
                                       i \in 1..Len(kw.scenario.instances) },
        configuration \in configurations }

\* the engine calls the target runner of one of its runs; a panic of the
\* handler comes back through the engine and unwinds the call
Callback(t, configurations) ==
    /\ threads[t].pc = "engine"
    /\ \E r \in 1..Len(threads[t].kwargs) :
       \E obj \in EngineExperiments(threads[t].kwargs[r], configurations) :
         LET tr == threads[t].kwargs[r].target_runner
             outcome == PyTargetRunner_call(tr, obj)
             callback == [run |-> r, payload |-> obj,
                          decoded |-> from_py(obj, tr.instances, tr.param_space,
                                              tr.runner.I),
                          outcome |-> outcome]
         IN  IF outcome.kind = "Panic"
             THEN /\ threads' = [threads EXCEPT ![t].pc = "panicked",
                                                ![t].callback = Some(callback),
                                                ![t].out = Some(outcome)]
                  /\ gil' = 0
             ELSE /\ threads' = [threads EXCEPT ![t].callback = Some(callback)]
                  /\ gil' = gil
    /\ UNCHANGED <<spaces, last, status, Codec, Boundary, once, python>>

\* Python::eval returns the engine's result
EngineReturns(t, results) ==
    /\ threads[t].pc = "engine"
    /\ \E res \in results :
         threads' = [threads EXCEPT ![t].pc = "convert", ![t].result = res]
    /\ UNCHANGED <<spaces, last, status, Codec, Boundary, once, python, gil>>

\* Python::eval returns the engine's exception: `?` ends the closure
EngineRaises(t) ==
    /\ threads[t].pc = "engine"
    /\ threads' = [threads EXCEPT ![t].pc = "done",
           ![t].out = Some(Report_from([kind |-> "Err", err |-> "Exception",
                                        msg |-> <<"engine">>]))]
    /\ gil' = 0
    /\ UNCHANGED <<spaces, last, status, Codec, Boundary, once, python>>

\* convert_result on the result (irace), or on each result with the space of
\* its run (multi_irace); the closure ends and the lock is released
Convert(t) ==
    /\ threads[t].pc = "convert"
    /\ LET schemas == [i \in 1..Len(threads[t].runs) |-> threads[t].runs[i].param_space]
           r == IF threads[t].fn = "irace"
                THEN convert_result(threads[t].result, schemas[1])
                ELSE convert_results(threads[t].result, schemas)
       IN  threads' = [threads EXCEPT ![t] =
             CASE r.kind = "Ok" -> [@ EXCEPT !.pc = "done", !.out = Some(r)]
               [] r.kind = "Err" -> [@ EXCEPT !.pc = "done", !.out = Some(Report_from(r))]
               [] r.kind = "Panic" -> [@ EXCEPT !.pc = "panicked", !.out = Some(r)]]
    /\ gil' = 0
    /\ UNCHANGED <<spaces, last, status, Codec, Boundary, once, python>>

-----------------------------------------------------------------------------
(* Specifications of irace(): one call at a time with the results the      *)
(* engine may return, and calls of irace() and multi_irace() by threads    *)
(* that run at the same time                                               *)

\* the elements of the list that the engine returns: configurations, one of
\* them with a categorical index out of range, and an object that is no dict
PyResultItems ==
    { PyDict(ScenarioDict(0)), PyDict(ScenarioDict(1)), PyDict(ScenarioDict(5)),
      PyDict(<< [key |-> PyStr(<<"x">>), value |-> PyStr(<<"b">>)] >>),
      PyInt(0) }

\* what Python::eval may return: a list of at most MaxResults, or no list
PyResults ==
    { PyNone } \cup
    { PyList(items) : items \in UNION { [1..n -> PyResultItems] : n \in 0..MaxResults } }

\* the arguments of a call of irace()
IraceCalls ==
    { [fn |-> "irace", runs |-> << Run_new(runner, instances, scenario, schema) >>] :
        runner \in { Runner("pso", "I"), Runner("seeded", "I") },
        instances \in InstanceLists,
        scenario \in Scenarios,
        schema \in { ScenarioSpace, ModeSpace, UnflattenedSpace } }

InitIrace ==
    /\ Elsewhere
    /\ BoundaryIdle
    /\ once = "incomplete"
    /\ python = [initialized |-> FALSE, inits |-> 0]
    /\ gil = 0
    /\ threads = << NotStarted >>

NextIrace ==
    \/ Start(1, IraceCalls)
    \/ CallOnce(1)
    \/ InitBody(1)
    \/ InitBodyPanics(1)
    \/ WithGil(1)
    \/ Callback(1, { PyDict(ScenarioDict(1)), PyDict(ScenarioDict(5)) })
    \/ EngineReturns(1, PyResults)
    \/ EngineRaises(1)
    \/ Convert(1)

SpecIrace == InitIrace /\ [][NextIrace]_vars

\* the calls that the threads make: irace() with one run, multi_irace() with two
ThreadCalls ==
    { [fn |-> "irace",
       runs |-> << Run_new(Runner("pso", "I"), <<10>>, [max_experiments |-> 100],
                           ScenarioSpace) >>],
      [fn |-> "multi_irace",
       runs |-> << Run_new(Runner("pso", "I"), <<10>>, [max_experiments |-> 100],
                           ScenarioSpace),
                   Run_new(Runner("seeded", "I"), << >>, [max_experiments |-> 100],
                           ModeSpace) >>] }

\* a list of configurations, which irace() converts, and a list of such lists,
\* which multi_irace() converts
ThreadResults ==
    { PyList(<< PyDict(ScenarioDict(1)) >>),
      PyList(<< PyList(<< PyDict(ScenarioDict(1)) >>), PyList(<< >>) >>) }

InitThreads ==
    /\ Elsewhere
    /\ BoundaryIdle
    /\ once = "incomplete"
    /\ python = [initialized |-> FALSE, inits |-> 0]
    /\ gil = 0
    /\ threads = [t \in 1..NumThreads |-> NotStarted]

NextThreads ==
    \E t \in 1..NumThreads :
        \/ Start(t, ThreadCalls)
        \/ CallOnce(t)
        \/ InitBody(t)
        \/ InitBodyPanics(t)
        \/ WithGil(t)
        \/ Callback(t, { PyDict(ScenarioDict(1)) })
        \/ EngineReturns(t, ThreadResults)
        \/ EngineRaises(t)
        \/ Convert(t)

SpecThreads == InitThreads /\ [][NextThreads]_vars

\* the runs handed to multi_irace(): their spaces differ, and a configuration
\* {mode: 1} decodes against each of them, to another variant
MultiRuns ==
    { Run_new(Runner("pso", "I"), <<10>>, [max_experiments |-> 100], ScenarioSpace),
      Run_new(Runner("seeded", "I"), << >>, [max_experiments |-> 100], ModeSpace) }

\* the calls of multi_irace(): no run, one run, two runs in either order
MultiCalls ==
    { [fn |-> "multi_irace", runs |-> runs] :
        runs \in UNION { [1..n -> MultiRuns] : n \in 0..2 } }

\* what the engine hands back for one run: lists of configurations, or no list
PyRunResults ==
    { PyList(<< >>),
      PyList(<< PyDict(<< [key |-> PyStr(<<"mode">>), value |-> PyInt(1)] >>) >>),
      PyList(<< PyDict(ScenarioDict(1)), PyDict(ScenarioDict(0)) >>),
      PyNone }

\* what Python::eval may return to multi_irace(): a list of at most MaxResults
\* results, one for each run or not, or no list
PyMultiResults ==
    { PyNone } \cup
    { PyList(items) : items \in UNION { [1..n -> PyRunResults] : n \in 0..MaxResults } }

InitMulti ==
    /\ Elsewhere
    /\ BoundaryIdle
    /\ once = "incomplete"
    /\ python = [initialized |-> FALSE, inits |-> 0]
    /\ gil = 0
    /\ threads = << NotStarted >>

NextMulti ==
    \/ Start(1, MultiCalls)
    \/ CallOnce(1)
    \/ InitBody(1)
    \/ InitBodyPanics(1)
    \/ WithGil(1)
    \/ Callback(1, { PyDict(<< [key |-> PyStr(<<"mode">>), value |-> PyInt(1)] >>) })
    \/ EngineReturns(1, PyMultiResults)
    \/ EngineRaises(1)
    \/ Convert(1)

SpecMulti == InitMulti /\ [][NextMulti]_vars

-----------------------------------------------------------------------------
(* What the claims speak of, stated on the tree and not through flatten *)

\* the names of a path joined with "."
RECURSIVE JoinDots(_)
JoinDots(path) ==
    IF Len(path) = 1 THEN path[1]
    ELSE path[1] \o <<".">> \o JoinDots(Tail(path))

\* the leaf declarations of a tree in depth-first order, each with the dotted
\* name of its path from the root
RECURSIVE LeavesFrom(_, _, _)
LeavesFrom(m, path, i) ==
    IF i > Len(m) THEN << >>
    ELSE (IF m[i].value.kind = "Nested"
          THEN LeavesFrom(m[i].value.space, Append(path, m[i].key), 1)
          ELSE << [key |-> JoinDots(Append(path, m[i].key)), value |-> m[i].value] >>)
         \o LeavesFrom(m, path, i + 1)
Leaves(m) == LeavesFrom(m, << >>, 1)

NoNested(m) == \A i \in 1..Len(m) : m[i].value.kind # "Nested"
DistinctKeys(m) == \A i, j \in 1..Len(m) : m[i].key = m[j].key => i = j
Position(m, k) == CHOOSE i \in 1..Len(m) : m[i].key = k
HasKey(m, k) == \E i \in 1..Len(m) : m[i].key = k

\* the space the last flatten / as_py_object was called on, as it is now
Space == spaces[1]
FlattenDone == last.op = "flatten" /\ status = "flattened"

\* C1: a flatten() that does not abort leaves exactly one entry per leaf of the
\* original tree, under the dotted name of the leaf's path and bound to the
\* leaf's declaration, and no Nested entry
C1_FlattenCorrect ==
    FlattenDone =>
        LET L == Leaves(last.pre) IN
        /\ Len(Space) = Len(L)
        /\ DistinctKeys(Space)
        /\ NoNested(Space)
        /\ \A i \in 1..Len(L) :
              \E j \in 1..Len(Space) : Space[j].key = L[i].key /\ Space[j].value = L[i].value

\* a doubly nested tree with two leaves or more has been flattened
C1_Witness ==
    /\ FlattenDone
    /\ Len(Space) >= 2
    /\ \E i \in 1..Len(last.pre) :
          /\ last.pre[i].value.kind = "Nested"
          /\ \E j \in 1..Len(last.pre[i].value.space) :
                /\ last.pre[i].value.space[j].value.kind = "Nested"
                /\ Len(last.pre[i].value.space[j].value.space) >= 1

\* two leaves of the tree have the same dotted name
Collides(m) ==
    LET L == Leaves(m) IN \E i, j \in 1..Len(L) : i # j /\ L[i].key = L[j].key

\* C2: when two leaves of the tree get the same flattened key, flatten() aborts;
\* a flatten() that completes has lost no declaration
C2_CollisionAborts ==
    last.op = "flatten" =>
        /\ Collides(last.pre) => status = "panicked"
        /\ status = "flattened" =>
              \A i \in 1..Len(Leaves(last.pre)) :
                  \E j \in 1..Len(Space) : Space[j].value = Leaves(last.pre)[i].value

\* flatten() aborted on nested "a" with child "b.c" and nested "a.b" with child "c"
C2_Witness ==
    /\ last.op = "flatten"
    /\ status = "panicked"
    /\ Collides(last.pre)
    /\ \E i, j \in 1..Len(last.pre) :
          /\ last.pre[i].key = <<"a">>
          /\ last.pre[i].value.kind = "Nested"
          /\ HasKey(last.pre[i].value.space, <<"b", ".", "c">>)
          /\ last.pre[j].key = <<"a", ".", "b">>
          /\ last.pre[j].value.kind = "Nested"
          /\ HasKey(last.pre[j].value.space, <<"c">>)

\* C3: flatten() on a space without Nested entry returns false and leaves the
\* mapping as it was; a flatten() that completes leaves no Nested entry, so a
\* second flatten() returns false and changes nothing
C3_FlattenIdempotent ==
    last.op = "flatten" =>
        /\ (NoNested(last.pre) \/ last.again) =>
              /\ status = "flattened"
              /\ last.ret = FALSE
              /\ Space = last.pre
        /\ status = "flattened" => NoNested(Space)

\* a second flatten() on a space that the first one had changed
C3_Witness ==
    /\ last.op = "flatten"
    /\ last.again
    /\ last.ret = FALSE
    /\ \E i \in 1..Len(Space) : Len(Space[i].key) >= 5

\* the entries present before and after keep their relative order
RelativeOrderKept(m, n) ==
    \A i, j \in 1..Len(m) :
        (i < j /\ HasKey(n, m[i].key) /\ HasKey(n, m[j].key))
            => Position(n, m[i].key) < Position(n, m[j].key)

\* the names that are new come after the ones that were there
NewNamesLast(m, n) ==
    \A i, j \in 1..Len(n) :
        (HasKey(m, n[i].key) /\ ~HasKey(m, n[j].key) /\ m[Position(m, n[i].key)].value.kind # "Nested")
            => i < j

\* C4: every operation preserves insertion order: the entries of a space stay
\* in the order their names were inserted, and flatten() keeps the entries that
\* were not Nested in their relative order (as stated; the code breaks it)
C4_OrderPreserved ==
    [][\A d \in 1..Len(spaces) :
          d <= Len(spaces') =>
              /\ RelativeOrderKept(spaces[d], spaces'[d])
              /\ NewNamesLast(spaces[d], spaces'[d])]_vars

\* C5: adding a declaration under a name already present at that level aborts
\* (as stated; the code replaces the declaration and goes on)
C5_DuplicateNameAborts ==
    (last.op = "add_raw" /\ last.present) => status = "panicked"

\* the record the engine is to get for one declaration: its class, the name of
\* the entry, the bounds of a numerical and the indices 0..N-1 of a categorical
RecordFits(rec, entry) ==
    /\ rec.class = entry.value.kind
    /\ rec.name = entry.key
    /\ entry.value.kind \in {"Real", "Integer"} =>
          /\ rec.lower = entry.value.lower
          /\ rec.upper = entry.value.upper
          /\ rec.log = entry.value.log
    /\ entry.value.kind = "Categorical" =>
          /\ Len(rec.variants) = Len(entry.value.variants)
          /\ \A v \in 1..Len(rec.variants) : rec.variants[v] = v - 1

\* C6: encoding fails when a Nested entry remains, and otherwise gives one
\* record per entry in the order of the space, a categorical as the indices
\* 0..N-1 of its variants
C6_Encode ==
    last.op = "as_py_object" =>
        IF ~NoNested(last.pre)
        THEN last.ret.kind = "Err"
        ELSE /\ last.ret.kind = "Ok"
             /\ Len(last.ret.value.subspaces) = Len(last.pre)
             /\ \A i \in 1..Len(last.pre) :
                   RecordFits(last.ret.value.subspaces[i], last.pre[i])

\* a flattened space with a categorical and another entry has been encoded
C6_Witness ==
    /\ last.op = "as_py_object"
    /\ status = "flattened"
    /\ last.ret.kind = "Ok"
    /\ Len(last.pre) >= 2
    /\ \E i \in 1..Len(last.pre) :
          /\ last.pre[i].value.kind = "Categorical"
          /\ Len(last.pre[i].key) >= 3

-----------------------------------------------------------------------------
(* What the claims on the decoder speak of: the verdict on one raw entry   *)
(* against the schema, stated on the entry and not through from_dict       *)

Decoded == result.kind # "none"

\* the value coerces to an index: an int that is not negative (a bool is one)
IsIndex(pv) == (pv.t = "int" /\ pv.int >= 0) \/ pv.t = "bool"
IndexOf(pv) == IF pv.t = "int" THEN pv.int ELSE IF pv.bool THEN 1 ELSE 0

\* "ok" when the entry decodes, and the error that it raises otherwise
Verdict(e, schema) ==
    IF e.key.t # "str" THEN "TypeMismatch"
    ELSE IF ~HasKey(schema, e.key.str) THEN "UnknownParameter"
    ELSE LET decl == schema[Position(schema, e.key.str)].value IN
         CASE decl.kind = "Nested" -> "UnsupportedNested"
           [] decl.kind = "Real" ->
                IF e.value.t \in {"float", "int", "bool"} THEN "ok" ELSE "TypeMismatch"
           [] decl.kind = "Integer" ->
                IF IsIndex(e.value) THEN "ok" ELSE "TypeMismatch"
           [] decl.kind = "Bool" ->
                IF e.value.t = "bool" THEN "ok" ELSE "TypeMismatch"
           [] decl.kind = "Categorical" ->
                IF ~IsIndex(e.value) THEN "TypeMismatch"
                ELSE IF IndexOf(e.value) >= Len(decl.variants) THEN "IndexOutOfRange"
                ELSE "ok"

Fails(i) == Verdict(kwargs[i], param_space) # "ok"
AllDecode == \A i \in 1..Len(kwargs) : ~Fails(i)
FirstFailing == CHOOSE i \in 1..Len(kwargs) : Fails(i) /\ \A j \in 1..(i - 1) : ~Fails(j)
FirstVerdict == Verdict(kwargs[FirstFailing], param_space)

\* how a decode that did not return a value ended
Ending ==
    CASE result.kind = "Panic" -> "IndexOutOfRange"
      [] result.kind = "Err" /\ result.err \in {"TypeError", "OverflowError"} -> "TypeMismatch"
      [] result.kind = "Err" /\ result.err = "ValueError"
           /\ result.msg[1] = "unknown parameter name: " -> "UnknownParameter"
      [] result.kind = "Err" /\ result.err = "ValueError"
           /\ result.msg[1] = "nested parameter space not supported" -> "UnsupportedNested"
      [] OTHER -> "ok"

\* the value is one the schema's declaration allows
Conforms(e, schema) ==
    /\ e.key.t = "str"
    /\ HasKey(schema, e.key.str)
    /\ LET decl == schema[Position(schema, e.key.str)].value IN
         CASE decl.kind = "Real" ->
                e.value.t = "float" /\ 2 * decl.lower <= e.value.halves
                                    /\ e.value.halves <= 2 * decl.upper
           [] decl.kind = "Integer" ->
                e.value.t = "int" /\ decl.lower <= e.value.int /\ e.value.int <= decl.upper
           [] decl.kind = "Bool" -> e.value.t = "bool"
           [] decl.kind = "Categorical" ->
                e.value.t = "int" /\ 0 <= e.value.int /\ e.value.int < Len(decl.variants)
           [] OTHER -> FALSE

\* the typed value a conforming entry stands for
Typed(e, schema) ==
    LET decl == schema[Position(schema, e.key.str)].value IN
    CASE decl.kind = "Real" -> [type |-> "f64", v |-> e.value.halves]
      [] decl.kind = "Integer" -> [type |-> "u32", v |-> e.value.int]
      [] decl.kind = "Bool" -> [type |-> "bool", v |-> e.value.bool]
      [] decl.kind = "Categorical" -> [type |-> "variant", v |-> decl.variants[e.value.int + 1]]

\* C7: against a space without nesting, a raw mapping whose values conform to
\* the schema decodes, each name to the same value in its declared type, a
\* categorical index i to the i-th variant
C7_RoundTrip ==
    (Decoded /\ NoNested(param_space)
        /\ \A i \in 1..Len(kwargs) : Conforms(kwargs[i], param_space)) =>
        /\ result.kind = "Ok"
        /\ \A i \in 1..Len(kwargs) :
              /\ kwargs[i].key.str \in DOMAIN result.value
              /\ result.value[kwargs[i].key.str] = Typed(kwargs[i], param_space)

\* {x: 0.5, n: 3, flag: true, mode: 1} has been decoded, mode to "b"
C7_Witness ==
    /\ Decoded
    /\ param_space = ScenarioSpace
    /\ kwargs = ScenarioDict(1)
    /\ result.kind = "Ok"
    /\ result.value[<<"mode">>].v = "b"
    /\ result.value[<<"x">>] = [type |-> "f64", v |-> 1]

\* C8: when the first entry that fails names a parameter absent from the
\* schema, the decode returns the error of an unknown parameter name, for that
\* name, and no Decoded Parameters
C8_UnknownParameter ==
    (Decoded /\ ~AllDecode /\ FirstVerdict = "UnknownParameter") =>
        /\ result.kind = "Err"
        /\ result.err = "ValueError"
        /\ result.msg = <<"unknown parameter name: ", kwargs[FirstFailing].key.str>>
        /\ "value" \notin DOMAIN result

\* a mapping whose only defect is an unknown name after a good entry was decoded
C8_Witness ==
    /\ Decoded
    /\ Len(kwargs) = 2
    /\ ~Fails(1)
    /\ Verdict(kwargs[2], param_space) = "UnknownParameter"
    /\ result.kind = "Err"

\* C9: a categorical index at or beyond the number of variants makes the decode
\* return an error result (as stated; the code panics on the Vec index)
C9_IndexOutOfRangeIsError ==
    (Decoded /\ ~AllDecode /\ FirstVerdict = "IndexOutOfRange") => result.kind = "Err"

C19_AbortsOnlyOnLeafCollision ==
    (last.op = "flatten" /\ status = "panicked") => Collides(last.pre)

-----------------------------------------------------------------------------
(* What the claims on the dispatch speak of, stated on the engine's        *)
(* Experiment object and not through from_py                               *)

\* the invocation has gone through Experiment::from_py
PastFromPy(c) == calls[c].pc \in {"decoded", "ran", "done"}

\* every part of the object is one that decodes, the instance index left aside
WellFormed(obj, schema) ==
    /\ obj.configuration_id.t = "str"
    /\ IsIndex(obj.seed)
    /\ obj.instance_id.t \in {"none", "str"}
    /\ obj.instance.t = "none" \/ IsIndex(obj.instance)
    /\ obj.configuration.t = "dict"
    /\ \A i \in 1..Len(obj.configuration.items) :
          Verdict(obj.configuration.items[i], schema) = "ok"

NoIndex(obj) == obj.instance.t = "none"
OutOfRegistry(obj) == IndexOf(obj.instance) >= Len(target.instances)
OtherType(obj) == target.instances[IndexOf(obj.instance) + 1].type # target.runner.I

\* C12: when an Experiment is built, the lookup of the instance raises nothing,
\* and the instance is None if the object carries no index, if the index is
\* outside the registry or if the entry there is not of the runner's instance
\* type; otherwise it is the registry's entry at exactly that index
C12_InstanceLookup ==
    \A c \in DOMAIN calls :
        (PastFromPy(c) /\ WellFormed(calls[c].payload, target.param_space)) =>
            /\ calls[c].pc = "decoded"
            /\ LET obj == calls[c].payload
                   instance == calls[c].experiment.value.instance
               IN  IF NoIndex(obj) \/ OutOfRegistry(obj) \/ OtherType(obj)
                   THEN instance = None
                   ELSE instance = Some(target.instances[IndexOf(obj.instance) + 1].instance)

\* an Experiment built with no instance for the index of an entry of another
\* type, or one built with the second entry of such a registry
C12_Witness ==
    \E c \in DOMAIN calls :
        /\ calls[c].pc = "decoded"
        /\ Len(target.instances) = 2
        /\ \/ /\ calls[c].payload.instance = PyInt(0)
              /\ target.instances[1].type # target.runner.I
              /\ calls[c].experiment.value.instance = None
           \/ /\ calls[c].payload.instance = PyInt(1)
              /\ target.instances[1].type # target.runner.I
              /\ calls[c].experiment.value.instance = Some(20)

\* the invocation has returned, and the lookup of its instance found none
Unresolved(c) ==
    /\ calls[c].pc = "done"
    /\ WellFormed(calls[c].payload, target.param_space)
    /\ \/ NoIndex(calls[c].payload)
       \/ OutOfRegistry(calls[c].payload)
       \/ OtherType(calls[c].payload)

MissingInstance == PyValueError(<<"missing instance">>)

\* C13 as stated: when the lookup resolves no instance the adapter returns the
\* error MissingInstance, whichever runner is registered
C13_MissingInstanceForEveryRunner ==
    \A c \in DOMAIN calls : Unresolved(c) => calls[c].outcome = Some(MissingInstance)

\* C13, amended: when the lookup resolves no instance the adapter invokes the
\* runner once with the instance None and returns what the runner returned; the
\* runner of the examples, which requires an instance, fails with "missing
\* instance", and that is the error of this invocation
C13_RunnerDecidesOnMissingInstance ==
    \A c \in DOMAIN calls :
        Unresolved(c) =>
            /\ calls[c].ran = 1
            /\ calls[c].experiment.value.instance = None
            /\ target.runner.name = "pso" => calls[c].outcome = Some(MissingInstance)
            /\ calls[c].outcome.value.kind = calls[c].ret.value.kind
            /\ calls[c].ret.value.kind = "Ok" =>
                  calls[c].outcome.value.value = PyFloat(calls[c].ret.value.value)
            /\ calls[c].ret.value.kind = "Err" =>
                  calls[c].outcome.value = PyValueError(calls[c].ret.value.msg)

\* the runner of the examples, called with an index outside the registry, failed
C13_Witness ==
    \E c \in DOMAIN calls :
        /\ Unresolved(c)
        /\ target.runner.name = "pso"
        /\ calls[c].payload.instance = PyInt(2)
        /\ calls[c].outcome = Some(MissingInstance)

\* the typed value that an entry that decodes stands for: a Real takes the float
\* of an int or a bool, an Integer and a Categorical take the index of a bool
Coerced(e, schema) ==
    LET decl == schema[Position(schema, e.key.str)].value IN
    CASE decl.kind = "Real" ->
           [type |-> "f64",
            v |-> IF e.value.t = "float" THEN e.value.halves ELSE 2 * IndexOf(e.value)]
      [] decl.kind = "Integer" -> [type |-> "u32", v |-> IndexOf(e.value)]
      [] decl.kind = "Bool" -> [type |-> "bool", v |-> e.value.bool]
      [] decl.kind = "Categorical" ->
           [type |-> "variant", v |-> decl.variants[IndexOf(e.value) + 1]]

\* the Experiment built by hand that is equivalent to a well-formed object
HandBuilt(obj) ==
    LET items == obj.configuration.items IN
    [id |-> obj.configuration_id.str,
     seed |-> IndexOf(obj.seed),
     instance_id |-> IF obj.instance_id.t = "none" THEN [some |-> FALSE]
                     ELSE [some |-> TRUE, value |-> obj.instance_id.str],
     instance |-> IF NoIndex(obj) \/ OutOfRegistry(obj) \/ OtherType(obj)
                  THEN [some |-> FALSE]
                  ELSE [some |-> TRUE,
                        value |-> target.instances[IndexOf(obj.instance) + 1].instance],
     params |-> [k \in { items[i].key.str : i \in 1..Len(items) } |->
                   Coerced(items[CHOOSE i \in 1..Len(items) : items[i].key.str = k],
                           target.param_space)]]

\* the runner invoked directly with the run's scenario and the Experiment built
\* by hand
Direct(obj) == run(target.runner, target.scenario, HandBuilt(obj))

\* C14: for every runner and every experiment object that decodes, the adapter
\* returns the scalar, or the failure, that the runner returns when invoked
\* directly with the run's scenario and the equivalent Experiment built by hand
C14_DispatchEquivalence ==
    \A c \in DOMAIN calls :
        (calls[c].pc = "done" /\ WellFormed(calls[c].payload, target.param_space)) =>
            LET direct == Direct(calls[c].payload)
                through == calls[c].outcome.value
            IN  /\ calls[c].experiment = Some(HandBuilt(calls[c].payload))
                /\ through.kind = direct.kind
                /\ direct.kind = "Ok" =>
                      through.value.t = "float" /\ through.value.halves = direct.value
                /\ direct.kind = "Err" => through.msg = direct.msg

\* the runner of the examples has returned 20 + 7 + 1 halves for the second
\* instance, the seed 7 and x = 0.5
C14_Witness ==
    \E c \in DOMAIN calls :
        /\ calls[c].pc = "done"
        /\ target.runner.name = "pso"
        /\ calls[c].payload.instance = PyInt(1)
        /\ calls[c].payload.seed = PyInt(7)
        /\ calls[c].outcome = Some(Ok(PyFloat(28)))

\* the error of the boundary: the ValueError that __call__ returns
BoundaryError(outcome) ==
    outcome.some /\ outcome.value.kind = "Err" /\ outcome.value.err = "ValueError"

\* C18: in one callback the runner is invoked at most once and only after the
\* whole experiment object has been decoded; if a part of the decode fails the
\* runner is not invoked and the callback returns the boundary error; if the
\* runner returns a value the callback returns that scalar, and if the runner
\* fails the callback returns the boundary error (as stated; a categorical index
\* out of range panics in the decode and no boundary error is returned)
C18_DecodeRunConvert ==
    \A c \in DOMAIN calls :
        /\ calls[c].ran <= 1
        /\ calls[c].ran = 1 =>
              /\ calls[c].experiment.some
              /\ WellFormed(calls[c].payload, target.param_space)
        /\ calls[c].ret.some => calls[c].ran = 1
        /\ calls[c].pc = "done" =>
              IF ~WellFormed(calls[c].payload, target.param_space)
              THEN calls[c].ran = 0 /\ BoundaryError(calls[c].outcome)
              ELSE /\ calls[c].ran = 1
                   /\ calls[c].ret.value.kind = "Ok" =>
                         calls[c].outcome = Some(Ok(PyFloat(calls[c].ret.value.value)))
                   /\ calls[c].ret.value.kind # "Ok" => BoundaryError(calls[c].outcome)

\* what __call__ returns for the object when no other invocation exists: the
\* whole of the handler in one piece
Alone(obj) ==
    LET r == from_py(obj, target.instances, target.param_space, target.runner.I) IN
    CASE r.kind = "Ok" -> into_py(run(target.runner, target.scenario, r.value))
      [] r.kind = "Err" -> into_py(into_Report(r))
      [] r.kind = "Panic" -> r

\* C17: no step of any invocation changes the runner, the registry, the
\* Parameter Space or the scenario, and under every interleaving each invocation
\* returns what it returns alone, whether the others succeed or fail
C17_InvocationsIndependent ==
    [][/\ target' = target
       /\ \A c \in DOMAIN calls :
             (calls[c].pc # "done" /\ calls'[c].pc = "done") =>
                 calls'[c].outcome = Some(Alone(calls[c].payload))]_vars

\* two invocations have returned, one with an error or a panic and one, for
\* the second instance, with a scalar
C17_Witness ==
    \E c, d \in DOMAIN calls :
        /\ c # d
        /\ calls[c].pc = "done"
        /\ calls[c].outcome.value.kind \in {"Err", "Panic"}
        /\ calls[d].pc = "done"
        /\ calls[d].outcome.value.kind = "Ok"
        /\ calls[d].payload.instance = PyInt(1)

-----------------------------------------------------------------------------
(* What the claims on irace() speak of, stated on the engine's objects     *)

\* the Decoded Parameters that a record which decodes stands for
DecodedBy(items, schema) ==
    [k \in { items[i].key.str : i \in 1..Len(items) } |->
        Coerced(items[CHOOSE i \in 1..Len(items) : items[i].key.str = k], schema)]

\* the object is a configuration record, and every entry of it decodes
RecordDecodes(ob, schema) ==
    /\ ob.t = "dict"
    /\ \A i \in 1..Len(ob.items) : Verdict(ob.items[i], schema) = "ok"

\* a call of irace() has ended after the engine returned a list
Converted(t) ==
    /\ threads[t].fn = "irace"
    /\ threads[t].pc \in {"done", "panicked"}
    /\ threads[t].result.t = "list"

\* C15: when the engine returns a list of configuration records that all
\* decode, irace() returns as many Decoded Parameters in the same order, the
\* i-th the decode of the i-th record against the Parameter Space of the run,
\* equal records kept; when a record does not decode, the whole call fails
C15_ResultsInOrder ==
    \A t \in DOMAIN threads :
        Converted(t) =>
            LET items == threads[t].result.items
                schema == threads[t].runs[1].param_space
                out == threads[t].out.value
            IN  IF \A i \in 1..Len(items) : RecordDecodes(items[i], schema)
                THEN /\ threads[t].pc = "done"
                     /\ out.kind = "Ok"
                     /\ Len(out.value) = Len(items)
                     /\ \A i \in 1..Len(items) :
                           out.value[i] = DecodedBy(items[i].items, schema)
                ELSE /\ out.kind \in {"Err", "Panic"}
                     /\ "value" \notin DOMAIN out

\* irace() has returned two Decoded Parameters for two equal records
C15_Witness ==
    \E t \in DOMAIN threads :
        /\ Converted(t)
        /\ threads[t].out.value.kind = "Ok"
        /\ Len(threads[t].out.value.value) = 2
        /\ threads[t].result.items[1] = threads[t].result.items[2]

\* the thread has passed init()
PastInit(t) == threads[t].pc \in {"gil", "engine", "convert", "done"}

\* C16: whatever the number of calls of irace() and multi_irace(), one after
\* the other or at the same time, the body of the initialization is entered
\* once at most; a caller that has passed init(), and the holder of the
\* interpreter's lock, find the interpreter initialized by the one body that
\* completed, and it stays initialized
C16_InitializedOnce ==
    /\ python.inits <= 1
    /\ once = "complete" => python.initialized /\ python.inits = 1
    /\ gil # 0 => python.initialized
    /\ \A t \in DOMAIN threads :
          PastInit(t) => once = "complete" /\ python.initialized /\ python.inits = 1

\* a thread is in the engine and another, which called multi_irace(), has
\* passed init() and waits for the interpreter's lock
C16_Witness ==
    \E t, u \in DOMAIN threads :
        /\ t # u
        /\ threads[t].pc = "engine"
        /\ threads[u].pc = "gil"
        /\ threads[u].fn = "multi_irace"
        /\ python.inits = 1

\* the engine has its arguments
Engaged(t) == threads[t].fn = "irace" /\ Len(threads[t].kwargs) = 1

\* C20: for a run started with k instances the indices given to the engine are
\* 0..k-1 in this order, the registry holds the k instances in the order of
\* their registration, and a callback that carries one of the indices, i,
\* resolves the i-th instance registered
C20_IndicesResolve ==
    \A t \in DOMAIN threads :
        Engaged(t) =>
            LET instances == threads[t].runs[1].instances
                kw == threads[t].kwargs[1]
                tr == kw.target_runner
            IN  /\ kw.scenario.instances = [i \in 1..Len(instances) |-> i - 1]
                /\ Len(tr.instances) = Len(instances)
                /\ \A i \in 0..(Len(instances) - 1) :
                      resolve(Some(i), tr.instances, tr.runner.I) = Some(instances[i + 1])
                /\ (/\ threads[t].callback.some
                    /\ threads[t].callback.value.payload.instance.t = "int"
                    /\ threads[t].callback.value.decoded.kind = "Ok") =>
                      threads[t].callback.value.decoded.value.instance =
                        Some(instances[threads[t].callback.value.payload.instance.int + 1])

\* a callback with the index 1 has resolved the second of two instances
C20_Witness ==
    \E t \in DOMAIN threads :
        /\ Engaged(t)
        /\ threads[t].runs[1].instances = <<10, 20>>
        /\ threads[t].callback.some
        /\ threads[t].callback.value.payload.instance = PyInt(1)
        /\ threads[t].callback.value.decoded.kind = "Ok"
        /\ threads[t].callback.value.decoded.value.instance = Some(20)

\* a call of multi_irace() has returned its lists
Succeeded(t) ==
    /\ threads[t].fn = "multi_irace"
    /\ threads[t].pc = "done"
    /\ threads[t].result.t = "list"
    /\ threads[t].out.value.kind = "Ok"

\* C21: multi_irace() over n runs returns on success n lists in the order of
\* the runs, the i-th the engine's i-th result decoded against the Parameter
\* Space of the i-th run, whatever the number of results the engine hands back
\* (as stated; the code zips the results with the spaces and returns as many
\* lists as the shorter of the two)
C21_OneListPerRun ==
    \A t \in DOMAIN threads :
        Succeeded(t) =>
            LET runs == threads[t].runs
                items == threads[t].result.items
                out == threads[t].out.value.value
            IN  /\ Len(out) = Len(runs)
                /\ \A i \in 1..Len(out) :
                      /\ i <= Len(items)
                      /\ Len(out[i]) = Len(items[i].items)
                      /\ \A j \in 1..Len(out[i]) :
                            out[i][j] = DecodedBy(items[i].items[j].items,
                                                  runs[i].param_space)

====
